---- MODULE Spec2Model ----
(***************************************************************************)
(* Model of the solana-fib-cpi program (src/src/lib.rs): an on-chain       *)
(* program that keeps a Fibonacci state (a, b, n, bump) in a program       *)
(* derived account and advances it one step per invocation, continuing by  *)
(* invoking itself through the runtime's cross-program invocation (CPI).   *)
(*                                                                         *)
(* The runtime is modelled as far as the program's calls reach it: the     *)
(* invoke stack with its height limit, the system program's CreateAccount, *)
(* and the transaction that commits every account change of a successful   *)
(* instruction and discards them all when the instruction fails.           *)
(* An instruction always carries the three accounts of the interface       *)
(* (record, payer, system program), so the three next_account_info calls   *)
(* of lib.rs:44-47 succeed.                                                *)
(***************************************************************************)
EXTENDS Integers, Sequences, FiniteSets, TLC

\* ------------------------------------------------------------------------
\* Bounds of the model
\* ------------------------------------------------------------------------

\* Largest step count a client puts in an init payload.
MaxN == 6

\* ------------------------------------------------------------------------
\* Program constants
\* ------------------------------------------------------------------------

DATA_LEN == 25

SYSTEM_PROGRAM == "11111111111111111111111111111111"

\* The program's own id (the program_id argument of process_instruction).
PROGRAM_ID == "fib_program"

\* Solana's maximum invoke stack height (lib.rs:115, integration.rs:117).
MAX_INVOKE_STACK_HEIGHT == 5

RentOverhead == 128
LamportsPerByteYear == 3480
ExemptionYears == 2

rent_minimum(data_len) == (RentOverhead + data_len) * LamportsPerByteYear * ExemptionYears

\* ------------------------------------------------------------------------
\* u64 values.  A u64 is the 8-digit base-256 numeral of its value, most
\* significant digit first, so that all 64 bits are kept.
\* ------------------------------------------------------------------------

Byte == 0..255

RECURSIVE Digits(_, _)
Digits(x, k) == IF k = 0 THEN <<>> ELSE Append(Digits(x \div 256, k - 1), x % 256)

\* The u64 of a small natural number.
u64(x) == Digits(x, 8)

U64_ZERO == u64(0)
U64_MAX == [i \in 1..8 |-> 255]

\* to_le_bytes with the bytes in big-endian order (to_be_bytes).
to_be_bytes(v) == [i \in 1..8 |-> v[i]]

\* u64::to_le_bytes: least significant byte first.
to_le_bytes(v) == [i \in 1..8 |-> v[9 - i]]

\* u64::from_le_bytes over an 8-byte slice.
from_le_bytes(bs) == [i \in 1..8 |-> bs[9 - i]]

\* Carry into digit i of x + y.
RECURSIVE Carry(_, _, _)
Carry(x, y, i) == IF i = 8 THEN 0 ELSE (x[i + 1] + y[i + 1] + Carry(x, y, i + 1)) \div 256

\* Option: None, or Some(v) with its value unwrap(o).
None == <<>>
Some(v) == <<v>>
unwrap(o) == o[1]

\* checked_add that wraps around (wrapping_add).
wrapping_add(x, y) == Some([i \in 1..8 |-> (x[i] + y[i] + Carry(x, y, i)) % 256])

\* u64::checked_add: None when the sum does not fit in 64 bits.
checked_add(x, y) ==
    IF x[1] + y[1] + Carry(x, y, 1) >= 256
    THEN None
    ELSE Some([i \in 1..8 |-> (x[i] + y[i] + Carry(x, y, i)) % 256])

\* Borrow out of digit i of x - 1.
RECURSIVE Borrow(_, _)
Borrow(x, i) == IF i = 9 THEN 1 ELSE IF x[i] - Borrow(x, i + 1) < 0 THEN 1 ELSE 0

\* n - 1 on u64 (two's complement; the program only evaluates it for n > 0).
sub_one(x) == [i \in 1..8 |-> (x[i] - Borrow(x, i + 1) + 256) % 256]

\* ------------------------------------------------------------------------
\* Accounts and addresses
\* ------------------------------------------------------------------------

\* Requesting identities (payers).
Identities == {"alice", "bob"}

\* Pubkey::find_program_address(&[SEED, payer], program_id): the derived
\* address and its bump, a function of the payer alone.
find_program_address(payer) ==
    IF payer = "alice" THEN <<"pda_alice", 255>> ELSE <<"pda_bob", 254>>

PdaOf(payer) == find_program_address(payer)[1]
BumpOf(payer) == find_program_address(payer)[2]

\* An address that is derived for nobody (Pubkey::new_unique in the tests).
Stray == "unique_stray"

RecordAddresses == {PdaOf(p) : p \in Identities} \cup {Stray}
Addresses == Identities \cup RecordAddresses

\* An account nobody has created: no data, no lamports, system owned.
EmptyAccount == [data |-> <<>>, owner |-> SYSTEM_PROGRAM, lamports |-> 0]

\* AccountInfo::data_is_empty
data_is_empty(acct) == Len(acct.data) = 0

\* data[lo..lo+len(bytes)].copy_from_slice(bytes), with 0-based lo.
copy_from_slice(data, lo, bytes) ==
    [i \in 1..Len(data) |->
        IF i > lo /\ i <= lo + Len(bytes) THEN bytes[i - lo] ELSE data[i]]

\* data[lo..hi] with the 0-based, half-open bounds of the source.
slice(data, lo, hi) == SubSeq(data, lo + 1, hi)

\* The fields the program reads from a record (lib.rs:87-89, read_state).
field_a(data) == from_le_bytes(slice(data, 0, 8))
field_b(data) == from_le_bytes(slice(data, 8, 16))
field_n(data) == from_le_bytes(slice(data, 16, 24))
field_bump(data) == data[25]

\* ------------------------------------------------------------------------
\* State
\* ------------------------------------------------------------------------

VARIABLES
    committed,  \* the accounts as of the last committed transaction
    working,    \* the accounts as the running transaction sees them
    stack,      \* the invoke stack: one frame per process_instruction call
    result,     \* the ProgramResult the last finished call returned
    phase,      \* "idle" (no transaction in hand), "running", "done"
    tx,         \* Some(the instruction of the current or last transaction)
    trace       \* what the current or last transaction did, in order

vars == <<committed, working, stack, result, phase, tx, trace>>

\* Client payloads: empty (resume), too short, a step count, a step count
\* followed by one more byte.
Payloads ==
    {<<>>, <<3, 0, 0>>}
        \cup {to_le_bytes(u64(n)) : n \in 0..MaxN}
        \cup {Append(to_le_bytes(u64(2)), 9)}

\* The instructions a client can submit (init_ix in the tests, and its
\* variations): the three accounts, whether the payer signed, the payload.
Instructions ==
    [pda : RecordAddresses, payer : Identities, is_signer : BOOLEAN,
     system : {SYSTEM_PROGRAM, "other_program"}, data : Payloads]

\* A payer's balance when the chain starts: nothing, or enough for the rent.
StartBalances == {0, 2 * rent_minimum(DATA_LEN)}

Ev(op, addr, who, val) == [op |-> op, addr |-> addr, who |-> who, val |-> val]

Top == stack[Len(stack)]
Pop == SubSeq(stack, 1, Len(stack) - 1)

\* ------------------------------------------------------------------------
\* The program
\* ------------------------------------------------------------------------

\* init_checks without the signer check.
init_checks_no_signer(f) ==
    /\ Len(f.data) >= 8
    /\ f.system = SYSTEM_PROGRAM
    /\ f.pda = find_program_address(f.payer)[1]

\* The four checks of the create branch (lib.rs:51-58).
init_checks(f) ==
    /\ Len(f.data) >= 8
    /\ f.is_signer
    /\ f.system = SYSTEM_PROGRAM
    /\ f.pda = find_program_address(f.payer)[1]

\* create_account_ix that leaves the funding amount out of the request.
create_account_ix_unfunded(from, to, lamports, space, owner) ==
    [program_id |-> SYSTEM_PROGRAM, from |-> from, to |-> to,
     opcode |-> 0, lamports |-> 0, space |-> space, owner |-> owner]

\* create_account_ix (lib.rs:20-37): the CreateAccount request.
create_account_ix(from, to, lamports, space, owner) ==
    [program_id |-> SYSTEM_PROGRAM, from |-> from, to |-> to,
     opcode |-> 0, lamports |-> lamports, space |-> space, owner |-> owner]

\* The system program executing a CreateAccount request: None when the payer
\* cannot fund it or the address is in use, else the accounts with the new
\* zero-filled record.
create_account(accts, ix) ==
    IF \/ accts[ix.from].lamports < ix.lamports
       \/ accts[ix.to] # EmptyAccount
    THEN None
    ELSE Some([accts EXCEPT
                 ![ix.from].lamports = @ - ix.lamports,
                 ![ix.to] = [data |-> [i \in 1..ix.space |-> 0],
                             owner |-> ix.owner,
                             lamports |-> ix.lamports]])

\* init_write seeding b with all ones (!0u64) instead of 1.
init_write_all_ones(data, n, bump) ==
    LET d1 == copy_from_slice(data, 0, to_le_bytes(u64(0)))
        d2 == copy_from_slice(d1, 8, to_le_bytes(U64_MAX))
        d3 == copy_from_slice(d2, 16, to_le_bytes(n))
    IN  [d3 EXCEPT ![25] = bump]

\* init_write with the offsets of b and n exchanged.
init_write_swapped(data, n, bump) ==
    LET d1 == copy_from_slice(data, 0, to_le_bytes(u64(0)))
        d2 == copy_from_slice(d1, 16, to_le_bytes(u64(1)))
        d3 == copy_from_slice(d2, 8, to_le_bytes(n))
    IN  [d3 EXCEPT ![25] = bump]

\* The four writes of the create branch (lib.rs:73-76).
init_write(data, n, bump) ==
    LET d1 == copy_from_slice(data, 0, to_le_bytes(u64(0)))
        d2 == copy_from_slice(d1, 8, to_le_bytes(u64(1)))
        d3 == copy_from_slice(d2, 16, to_le_bytes(n))
    IN  [d3 EXCEPT ![25] = bump]

\* step_write with the remaining count one byte too far (data[17..25]).
step_write_over_bump(data, b, new_b, n) ==
    LET d1 == copy_from_slice(data, 0, to_le_bytes(b))
        d2 == copy_from_slice(d1, 8, to_le_bytes(new_b))
    IN  copy_from_slice(d2, 17, to_le_bytes(sub_one(n)))

\* step_write that stores n instead of n - 1.
step_write_keeps_n(data, b, new_b, n) ==
    LET d1 == copy_from_slice(data, 0, to_le_bytes(b))
        d2 == copy_from_slice(d1, 8, to_le_bytes(new_b))
    IN  copy_from_slice(d2, 16, to_le_bytes(n))

\* step_write with the slip of storing the new b in both value fields.
step_write_both_new_b(data, b, new_b, n) ==
    LET d1 == copy_from_slice(data, 0, to_le_bytes(new_b))
        d2 == copy_from_slice(d1, 8, to_le_bytes(new_b))
    IN  copy_from_slice(d2, 16, to_le_bytes(sub_one(n)))

\* The three writes of the step branch (lib.rs:97-99).
step_write(data, b, new_b, n) ==
    LET d1 == copy_from_slice(data, 0, to_le_bytes(b))
        d2 == copy_from_slice(d1, 8, to_le_bytes(new_b))
    IN  copy_from_slice(d2, 16, to_le_bytes(sub_one(n)))

\* step_is_done without the early return.
step_is_done_never(n) == FALSE

\* The step branch stops without writing when no step is left (lib.rs:91).
step_is_done(n) == n = U64_ZERO

\* init_recurses off by one (`if n > 1`).
init_recurses_above_one(n) == n # U64_ZERO /\ n # u64(1)

\* `if n > 0` after the init write (lib.rs:81).
init_recurses(n) == n # U64_ZERO

\* step_recurses testing n where the source tests n - 1.
step_recurses_on_n(n) == n # U64_ZERO

\* `if n - 1 > 0` after the step write (lib.rs:104).
step_recurses(n) == sub_one(n) # U64_ZERO

\* invoke_allowed without any limit on the stack height.
invoke_allowed_unbounded(h, f) == f.is_signer

\* invoke_allowed with the height limit off by one.
invoke_allowed_one_deeper(h, f) == h <= MAX_INVOKE_STACK_HEIGHT /\ f.is_signer

\* The runtime accepting an invoke issued by the frame at height h: the
\* callee would run at h + 1, and the payer is passed on as a signer.
invoke_allowed(h, f) == h + 1 <= MAX_INVOKE_STACK_HEIGHT /\ f.is_signer

\* self_cpi_frame with the first two accounts in the wrong order.
self_cpi_frame_swapped(f) ==
    [pda |-> f.payer, payer |-> f.pda, is_signer |-> TRUE,
     system |-> SYSTEM_PROGRAM, data |-> <<>>, pc |-> "entry"]

\* self_cpi_frame handing the caller's payload on to the callee.
self_cpi_frame_forwards_data(f) ==
    [pda |-> f.pda, payer |-> f.payer, is_signer |-> TRUE,
     system |-> SYSTEM_PROGRAM, data |-> f.data, pc |-> "entry"]

\* The frame self_cpi starts (lib.rs:122-133): same record, same payer as a
\* signer, the system program, no data.
self_cpi_frame(f) ==
    [pda |-> f.pda, payer |-> f.payer, is_signer |-> TRUE,
     system |-> SYSTEM_PROGRAM, data |-> <<>>, pc |-> "entry"]

\* propagate that reports every nested call as done.
propagate_always_ok(r) == IF r = "err" THEN "ok" ELSE r

\* propagate with the callee's error dropped (`let _ = self_cpi(..)`).
propagate_swallows(r) == "ok"

\* The `?` after self_cpi: the caller returns what the callee returned.
propagate(r) == r

\* Lamports somebody may have sent to a derived address before its record
\* is created: none, or a few.
StartDust == {0, 1}

Init ==
    /\ committed \in
         {[x \in Addresses |->
              IF x \in Identities
              THEN [EmptyAccount EXCEPT !.lamports = bal[x]]
              ELSE IF x = Stray THEN EmptyAccount
              ELSE [EmptyAccount EXCEPT !.lamports = dust[x]]] :
            bal \in [Identities -> StartBalances],
            dust \in [RecordAddresses \ {Stray} -> StartDust]}
    /\ working = committed
    /\ stack = <<>>
    /\ result = "none"
    /\ phase = "idle"
    /\ tx = None
    /\ trace = <<>>

\* A client submits a transaction with one instruction of this program.
Submit ==
    /\ phase = "idle"
    /\ \E ix \in Instructions :
         /\ tx' = Some(ix)
         /\ stack' = <<[pda |-> ix.pda, payer |-> ix.payer,
                        is_signer |-> ix.is_signer, system |-> ix.system,
                        data |-> ix.data, pc |-> "entry"]>>
    /\ working' = committed
    /\ result' = "none"
    /\ phase' = "running"
    /\ trace' = <<>>
    /\ UNCHANGED committed

\* What follows a write when the frame goes on with self_cpi: the callee is
\* pushed, or the runtime rejects the invoke and the frame returns the error.
SelfCpi(f, tr) ==
    IF invoke_allowed(Len(stack), f)
    THEN /\ stack' = Append([stack EXCEPT ![Len(stack)].pc = "await"],
                            self_cpi_frame(f))
         /\ result' = "none"
         /\ trace' = Append(tr, Ev("cpi", f.pda, f.payer, Len(stack) + 1))
    ELSE /\ stack' = Pop
         /\ result' = "err"
         /\ trace' = tr \o <<Ev("cpi_rejected", f.pda, f.payer, Len(stack) + 1),
                             Ev("fail", f.pda, f.payer, "call depth")>>

\* process_instruction on a record without data (lib.rs:49-83).
ProcessInit ==
    /\ phase = "running" /\ stack # <<>> /\ Top.pc = "entry"
    /\ data_is_empty(working[Top.pda])
    /\ LET f == Top
           n == from_le_bytes(slice(f.data, 0, 8))
           bump == find_program_address(f.payer)[2]
           ix == create_account_ix(f.payer, f.pda, rent_minimum(DATA_LEN),
                                   DATA_LEN, PROGRAM_ID)
           created == IF invoke_allowed(Len(stack), f)
                      THEN create_account(working, ix) ELSE None
       IN  IF ~init_checks(f)
           THEN /\ stack' = Pop
                /\ result' = "err"
                /\ trace' = Append(trace, Ev("fail", f.pda, f.payer, "assert"))
                /\ UNCHANGED working
           ELSE IF created = None
           THEN /\ stack' = Pop
                /\ result' = "err"
                /\ trace' = trace \o <<Ev("alloc", f.pda, f.payer, ix),
                                       Ev("fail", f.pda, f.payer, "create_account")>>
                /\ UNCHANGED working
           ELSE LET written == [unwrap(created) EXCEPT
                                  ![f.pda].data = init_write(@, n, bump)]
                    tr == trace \o <<Ev("alloc", f.pda, f.payer, ix),
                                     Ev("write", f.pda, f.payer, written[f.pda].data),
                                     Ev("msg", f.pda, f.payer, <<"init", n>>)>>
                IN  /\ working' = written
                    /\ IF init_recurses(n)
                       THEN SelfCpi(f, tr)
                       ELSE /\ stack' = Pop
                            /\ result' = "ok"
                            /\ trace' = tr
    /\ UNCHANGED <<committed, phase, tx>>

\* process_instruction on a record with data (lib.rs:84-109).
ProcessStep ==
    /\ phase = "running" /\ stack # <<>> /\ Top.pc = "entry"
    /\ ~data_is_empty(working[Top.pda])
    /\ LET f == Top
           data == working[f.pda].data
           a == field_a(data)
           b == field_b(data)
           n == field_n(data)
           sum == checked_add(a, b)
           rd == Append(trace, Ev("read", f.pda, f.payer, data))
       IN  IF step_is_done(n)
           THEN /\ stack' = Pop
                /\ result' = "ok"
                /\ trace' = Append(rd, Ev("msg", f.pda, f.payer, <<"done", b>>))
                /\ UNCHANGED working
           ELSE IF sum = None
           THEN /\ stack' = Pop
                /\ result' = "err"
                /\ trace' = Append(rd, Ev("fail", f.pda, f.payer, "overflow"))
                /\ UNCHANGED working
           ELSE LET new_b == unwrap(sum)
                    written == step_write(data, b, new_b, n)
                    tr == rd \o <<Ev("write", f.pda, f.payer, written),
                                  Ev("msg", f.pda, f.payer,
                                     <<"step", b, new_b, sub_one(n)>>)>>
                IN  /\ working' = [working EXCEPT ![f.pda].data = written]
                    /\ IF step_recurses(n)
                       THEN SelfCpi(f, tr)
                       ELSE /\ stack' = Pop
                            /\ result' = "ok"
                            /\ trace' = Append(tr, Ev("msg", f.pda, f.payer,
                                                      <<"done", new_b>>))
    /\ UNCHANGED <<committed, phase, tx>>

\* self_cpi returned to a waiting frame, which returns in turn
\* (lib.rs:82, 105 and 111).
Return ==
    /\ phase = "running" /\ stack # <<>> /\ Top.pc = "await"
    /\ result # "none"
    /\ stack' = Pop
    /\ result' = propagate(result)
    /\ UNCHANGED <<committed, working, phase, tx, trace>>

\* The outermost call returned: the runtime commits the transaction's account
\* changes when it returned Ok and discards them all when it returned Err.
Finish ==
    /\ phase = "running" /\ stack = <<>> /\ result # "none"
    /\ committed' = IF result = "ok" THEN working ELSE committed
    /\ working' = committed'
    /\ phase' = "done"
    /\ UNCHANGED <<stack, result, tx, trace>>

\* The client has seen the outcome of its transaction (process_transaction
\* returned, get_account read the record) and is free to submit the next.
Observe ==
    /\ phase = "done"
    /\ phase' = "idle"
    /\ tx' = None
    /\ result' = "none"
    /\ trace' = <<>>
    /\ UNCHANGED <<committed, working, stack>>

\* u64 values over the whole range: small ones, ones whose sum carries from
\* digit to digit, and ones whose sum leaves the 64 bits.
U64Samples ==
    {u64(1), u64(255), <<1, 2, 3, 4, 5, 6, 7, 8>>,
     <<128, 0, 0, 0, 0, 0, 0, 0>>, U64_MAX}

\* The a and the b of the records the chain starts with.
ASamples == U64Samples \ {u64(1)}
BSamples == U64Samples \ {u64(255)}

\* Step counts a record can hold: none left, some left, more than any chain
\* can run.
CountSamples == {u64(0), u64(1), u64(2), u64(256)}

\* A chain in which alice's record exists with any field values, for the
\* properties of one call that hold whatever the record holds.
InitAny ==
    /\ committed \in
         {[x \in Addresses |->
              IF x = "alice" THEN EmptyAccount
              ELSE IF x = "bob"
              THEN [EmptyAccount EXCEPT !.lamports = rent_minimum(DATA_LEN)]
              ELSE IF x = PdaOf("alice")
              THEN [data |-> to_le_bytes(a) \o to_le_bytes(b) \o to_le_bytes(n)
                               \o <<BumpOf("alice")>>,
                    owner |-> PROGRAM_ID,
                    lamports |-> rent_minimum(DATA_LEN)]
              ELSE EmptyAccount] :
            a \in ASamples, b \in BSamples, n \in CountSamples}
    /\ working = committed
    /\ stack = <<>>
    /\ result = "none"
    /\ phase = "idle"
    /\ tx = None
    /\ trace = <<>>

Next == Submit \/ ProcessInit \/ ProcessStep \/ Return \/ Finish \/ Observe

Spec == Init /\ [][Next]_vars

SpecAny == InitAny /\ [][Next]_vars

\* A call that was entered runs to its return, a returned call's caller goes
\* on, and the runtime ends a transaction whose outermost call returned: the
\* runtime executes a transaction without pausing.  A client need not submit.
Runs == ProcessInit \/ ProcessStep \/ Return \/ Finish

FairSpec == Init /\ [][Next]_vars /\ WF_vars(Runs)

\* ------------------------------------------------------------------------
\* Properties
\* ------------------------------------------------------------------------

RECURSIVE Fib(_)
Fib(k) == IF k = 0 THEN 0 ELSE IF k = 1 THEN 1 ELSE Fib(k - 1) + Fib(k - 2)

\* The instruction of the current or last transaction.
Ix == unwrap(tx)

\* The four fields of a record, decoded.
Fields(acct) ==
    <<field_a(acct.data), field_b(acct.data), field_n(acct.data), field_bump(acct.data)>>

\* The outermost call has returned and the runtime ends the transaction.
Finishing == phase = "running" /\ phase' = "done"

\* The transaction's instruction is an init that passes every check on the
\* accounts accts: the record is absent, the payload holds a step count, the
\* payer signed and can fund the record, the accounts are the right ones.
ValidInit(accts) ==
    /\ accts[Ix.pda] = EmptyAccount
    /\ Len(Ix.data) >= 8
    /\ Ix.is_signer
    /\ Ix.system = SYSTEM_PROGRAM
    /\ Ix.pda = PdaOf(Ix.payer)
    /\ accts[Ix.payer].lamports >= rent_minimum(DATA_LEN)

\* The step count of an init payload is k.
CountIs(k) == Len(Ix.data) >= 8 /\ SubSeq(Ix.data, 1, 8) = to_le_bytes(u64(k))

\* Some event of the transaction has the given op.
Did(op) == \E i \in DOMAIN trace : trace[i].op = op

\* C1: a valid init transaction on an absent record with step count n in
\* 0..4 succeeds and commits the record (a, b, remaining) =
\* (fib(n), fib(n+1), 0).
C1_InitCommitsFib ==
    [][\A n \in 0..4 :
          (Finishing /\ ValidInit(committed) /\ CountIs(n))
          => /\ result = "ok"
             /\ Fields(committed'[Ix.pda])
                  = <<u64(Fib(n)), u64(Fib(n + 1)), u64(0), BumpOf(Ix.payer)>>]_vars

C1_Witness ==
    /\ phase = "done" /\ result = "ok" /\ CountIs(4) /\ Did("alloc")
    /\ Fields(committed[Ix.pda]) = <<u64(3), u64(5), u64(0), BumpOf(Ix.payer)>>

\* C2: with invoke stack height limit 5, a valid init transaction with step
\* count n succeeds when n <= 4 and fails when n >= 5, and when it fails no
\* account has changed: the record is still absent.
C2_DepthBoundary ==
    [][\A n \in 0..MaxN :
          (Finishing /\ ValidInit(committed) /\ CountIs(n))
          => /\ (n <= 4 => result = "ok")
             /\ (n >= 5 => result = "err")
             /\ (n >= 5 => committed' = committed /\ committed'[Ix.pda] = EmptyAccount)
             /\ (n <= 4 => ~data_is_empty(committed'[Ix.pda]))]_vars

C2_Witness ==
    /\ phase = "done" /\ result = "err" /\ CountIs(5)
    /\ Did("write") /\ Did("cpi_rejected")
    /\ committed[Ix.pda] = EmptyAccount

\* An invocation is about to run process_instruction on a record with data.
AtStep ==
    /\ phase = "running" /\ stack # <<>> /\ Top.pc = "entry"
    /\ ~data_is_empty(working[Top.pda])

\* An invocation is about to run process_instruction on a record without data.
AtInit ==
    /\ phase = "running" /\ stack # <<>> /\ Top.pc = "entry"
    /\ data_is_empty(working[Top.pda])

\* The events the transaction's calls made about accounts.
Touches(ops) == {i \in DOMAIN trace : trace[i].op \in ops}

\* C3: every invocation that names a storage address other than the one
\* derived for its payer is rejected, with no allocation request and no
\* write, whether that address holds a record or not.
C3_WrongAddressRejected ==
    (phase = "done" /\ Ix.pda # PdaOf(Ix.payer))
    => result = "err" /\ Touches({"alloc", "write"}) = {}

\* C4: a transaction is all or nothing.  The committed accounts change only
\* when a transaction ends, and then to the state its last call left; when
\* any call of the chain failed they do not change at all.
C4_AllOrNothing ==
    [][/\ committed' # committed
          => Finishing /\ result = "ok" /\ ~Did("fail") /\ committed' = working
       /\ (Finishing /\ Did("fail")) => committed' = committed]_vars

C4_Witness ==
    /\ phase = "done" /\ Did("fail") /\ Cardinality(Touches({"write"})) >= 3
    /\ Did("alloc") /\ committed[Ix.pda] = EmptyAccount

\* C5: an invocation on a record with remaining = 0 changes no account,
\* issues no self-invocation, succeeds and reports b, whatever its payload;
\* and a committed record with remaining = 0 never changes again.
C5_TerminalIsFixed ==
    [][/\ (AtStep /\ field_n(working[Top.pda].data) = U64_ZERO)
          => /\ working' = working
             /\ result' = "ok"
             /\ stack' = Pop
             /\ trace' = trace \o
                  <<Ev("read", Top.pda, Top.payer, working[Top.pda].data),
                    Ev("msg", Top.pda, Top.payer,
                       <<"done", field_b(working[Top.pda].data)>>)>>
       /\ \A x \in RecordAddresses :
            (~data_is_empty(committed[x]) /\ field_n(committed[x].data) = U64_ZERO)
            => committed'[x] = committed[x]]_vars

C5_Witness ==
    /\ phase = "done" /\ result = "ok" /\ CountIs(3)
    /\ Len(trace) = 2 /\ trace[2].val = <<"done", u64(5)>>
    /\ Fields(committed[Ix.pda])[3] = U64_ZERO

\* C6: a step on a record with remaining > 0 writes remaining - 1, new
\* a = old b and new b = old a + old b; no call changes a present record in
\* any other way, so remaining never grows and never wraps below 0.
C6_StepDecrements ==
    [][\A x \in RecordAddresses :
          (phase = "running" /\ phase' = "running"
             /\ ~data_is_empty(working[x]) /\ working'[x] # working[x])
          => LET old == working[x].data
                 new == working'[x].data
             IN  /\ AtStep /\ x = Top.pda
                 /\ field_n(old) # U64_ZERO
                 /\ checked_add(field_n(new), u64(1)) = Some(field_n(old))
                 /\ field_a(new) = field_b(old)
                 /\ Some(field_b(new)) = checked_add(field_a(old), field_b(old))
                 /\ field_bump(new) = field_bump(old)
                 /\ Len(new) = DATA_LEN
                 /\ working'[x].owner = working[x].owner
                 /\ working'[x].lamports = working[x].lamports]_vars

C6_Witness ==
    /\ phase = "running" /\ Len(stack) = 4 /\ Top.pc = "entry"
    /\ Cardinality(Touches({"write"})) = 3
    /\ Fields(working[Ix.pda]) = <<u64(1), u64(2), u64(2), BumpOf(Ix.payer)>>

\* C7: on the absent branch, after the checks and a successful allocation,
\* the first write leaves a 25-byte record owned by this program holding
\* a = 0, b = 1, remaining = the payload's first 8 bytes, discriminator =
\* the payer's bump, in that layout; for n = 0 that is the committed state.
C7_InitialState ==
    [][/\ \A x \in RecordAddresses :
            (phase = "running" /\ phase' = "running"
               /\ data_is_empty(working[x]) /\ working'[x] # working[x])
            => /\ AtInit /\ x = Top.pda /\ init_checks(Top)
               /\ working'[x].data
                    = <<0, 0, 0, 0, 0, 0, 0, 0>> \o <<1, 0, 0, 0, 0, 0, 0, 0>>
                        \o SubSeq(Top.data, 1, 8) \o <<BumpOf(Top.payer)>>
               /\ Len(working'[x].data) = DATA_LEN
               /\ working'[x].owner = PROGRAM_ID
       /\ (Finishing /\ ValidInit(committed) /\ CountIs(0))
            => /\ result = "ok"
               /\ Fields(committed'[Ix.pda])
                    = <<u64(0), u64(1), u64(0), BumpOf(Ix.payer)>>]_vars

C7_Witness ==
    /\ phase = "running" /\ Len(stack) = 2 /\ Top.pc = "entry" /\ CountIs(2)
    /\ Len(Ix.data) = 9
    /\ working[Ix.pda].data
         = <<0, 0, 0, 0, 0, 0, 0, 0, 1, 0, 0, 0, 0, 0, 0, 0,
             2, 0, 0, 0, 0, 0, 0, 0, 254>>

\* C8: on the absent branch, a payload shorter than 8 bytes, a payer that
\* did not sign or a third account that is not the system program aborts the
\* call before any mutation: no allocation request, no write, no
\* self-invocation.
C8_ChecksBeforeMutation ==
    [][(AtInit /\ (Len(Top.data) < 8 \/ ~Top.is_signer
                     \/ Top.system # SYSTEM_PROGRAM))
          => /\ result' = "err"
             /\ working' = working
             /\ stack' = Pop
             /\ trace' = Append(trace, Ev("fail", Top.pda, Top.payer, "assert"))]_vars

C8_Witness ==
    /\ phase = "done" /\ result = "err"
    /\ Ix.pda = PdaOf(Ix.payer) /\ Ix.data = <<>> /\ ~Ix.is_signer
    /\ Ix.system # SYSTEM_PROGRAM
    /\ trace = <<Ev("fail", Ix.pda, Ix.payer, "assert")>>
    /\ committed[Ix.payer].lamports >= rent_minimum(DATA_LEN)

\* C9: an invocation made with one identity as the payer never reads and
\* never writes the record derived for another identity.
C9_Isolation ==
    \A i \in Touches({"read", "write", "alloc"}) :
        \A p \in Identities \ {trace[i].who} : trace[i].addr # PdaOf(p)

\* The runtime rejected a self-invocation of the transaction for its depth.
DepthExceeded == Did("cpi_rejected")

\* C10 as stated: when a self-invocation is rejected for the depth ceiling,
\* the steps performed before the rejection stay committed in the record.
C10_PartialStatePersists ==
    [][(Finishing /\ DepthExceeded) => committed'[Ix.pda] = working[Ix.pda]]_vars

\* C10 amended: when a self-invocation is rejected for the depth ceiling,
\* the transaction fails and every step it performed is discarded: the
\* committed accounts are those from before the transaction.
C10_DepthFailureDiscards ==
    [][(Finishing /\ DepthExceeded)
          => /\ result = "err"
             /\ committed' = committed
             /\ committed'[Ix.pda] # working[Ix.pda]]_vars

C10_Witness ==
    /\ phase = "done" /\ DepthExceeded /\ CountIs(6)
    /\ Cardinality(Touches({"write"})) = 5
    /\ committed[Ix.pda] = EmptyAccount

\* The values a write of the transaction encoded, as the msg! that follows
\* it logs them, with the bump the record has (init: the derived bump; step:
\* the bump read before).
Encoded(i) ==
    LET m == trace[i + 1].val
    IN  IF m[1] = "init"
        THEN <<u64(0), u64(1), m[2], BumpOf(trace[i].who)>>
        ELSE <<m[2], m[3], m[4], trace[i - 1].val[25]>>

\* C11: every record the program writes is 25 bytes, with byte k of
\* [0:8), [8:16) and [16:24) the digit of weight 256^k of a, b and remaining
\* and byte 24 the discriminator, and decoding it (read_state) returns the
\* values that were encoded.
C11_LayoutRoundTrip ==
    \A i \in Touches({"write"}) :
        LET d == trace[i].val
            s == Encoded(i)
        IN  /\ Len(d) = DATA_LEN
            /\ \A k \in 0..7 :
                 /\ d[1 + k] = s[1][8 - k]
                 /\ d[9 + k] = s[2][8 - k]
                 /\ d[17 + k] = s[3][8 - k]
            /\ d[25] = s[4]
            /\ <<field_a(d), field_b(d), field_n(d), field_bump(d)>> = s

C11_Witness ==
    /\ phase = "done" /\ result = "ok" /\ Did("write")
    /\ committed[PdaOf("alice")].data
         = <<8, 7, 6, 5, 4, 3, 2, 1>> \o <<8, 7, 6, 5, 4, 3, 2, 129>>
             \o <<0, 0, 0, 0, 0, 0, 0, 0>> \o <<255>>

\* The self-invocations the transaction has issued so far, accepted by the
\* runtime or rejected.
Issued == Cardinality(Touches({"cpi", "cpi_rejected"}))

\* A call of the running transaction writes the record at x in this step.
Writes(x) ==
    phase = "running" /\ phase' = "running" /\ working'[x] # working[x]

\* C12: a self-invocation is issued after the init write exactly when
\* n > 0 and after a step write exactly when the remaining just written is
\* > 0; a successful chain started with step count n is 1 init and n step
\* executions, reaches stack height n + 1, and ends with the step that wrote
\* remaining = 0.
C12_ChainShape ==
    [][/\ \A x \in RecordAddresses :
            Writes(x)
            => /\ Issued' = Issued
                    + (IF field_n(working'[x].data) # U64_ZERO THEN 1 ELSE 0)
               /\ field_n(working'[x].data) = U64_ZERO
                    => stack' = Pop /\ result' = "ok"
       /\ \A n \in 0..MaxN :
            (Finishing /\ ValidInit(committed) /\ CountIs(n) /\ result = "ok")
            => /\ Cardinality(Touches({"alloc"})) = 1
               /\ Cardinality(Touches({"read"})) = n
               /\ Cardinality(Touches({"write"})) = n + 1
               /\ Touches({"cpi"}) # {}
                    => \A i \in Touches({"cpi"}) : trace[i].val <= n + 1
               /\ Cardinality({trace[i].val : i \in Touches({"cpi"})}) = n
               /\ Touches({"cpi_rejected"}) = {}]_vars

C12_Witness ==
    /\ phase = "done" /\ result = "ok" /\ CountIs(4)
    /\ Cardinality(Touches({"read"})) = 4
    /\ \E i \in Touches({"cpi"}) : trace[i].val = 5
    /\ trace[Len(trace)].val = <<"done", u64(5)>>

\* The CreateAccount request of the create branch for the running call.
Request ==
    [program_id |-> SYSTEM_PROGRAM, from |-> Top.payer, to |-> Top.pda,
     opcode |-> 0, lamports |-> rent_minimum(DATA_LEN), space |-> DATA_LEN,
     owner |-> PROGRAM_ID]

\* The system program refuses the running call's request: the payer cannot
\* fund it, or the address is already in use.
AllocationFails ==
    \/ working[Top.payer].lamports < rent_minimum(DATA_LEN)
    \/ working[Top.pda] # EmptyAccount

\* C13: on the absent branch the allocation request is issued before the
\* first write; when the allocation fails the call aborts with the
\* allocator's error, writes nothing, issues no self-invocation, and no
\* record exists after the transaction.
C13_AllocationFirst ==
    [][/\ (AtInit /\ init_checks(Top))
          => /\ Len(trace') > Len(trace)
             /\ trace'[Len(trace) + 1] = Ev("alloc", Top.pda, Top.payer, Request)
             /\ AllocationFails
                  => /\ result' = "err"
                     /\ stack' = Pop
                     /\ working' = working
                     /\ trace' = trace \o
                          <<Ev("alloc", Top.pda, Top.payer, Request),
                            Ev("fail", Top.pda, Top.payer, "create_account")>>
             /\ ~AllocationFails
                  => /\ trace'[Len(trace) + 2].op = "write"
                     /\ ~data_is_empty(working'[Top.pda])
       /\ \A i \in Touches({"write"}) :
            \E j \in Touches({"alloc"}) : j < i /\ trace[j].addr = trace[i].addr
       /\ (Finishing /\ Len(trace) = 2 /\ trace[2].val = "create_account")
          => /\ committed' = committed
             /\ data_is_empty(committed'[Ix.pda])]_vars

\* The payer cannot fund the record.
C13_Witness ==
    /\ phase = "done" /\ result = "err"
    /\ Len(trace) = 2 /\ trace[1].op = "alloc" /\ trace[2].val = "create_account"
    /\ committed[Ix.payer].lamports = 0
    /\ committed[Ix.pda] = EmptyAccount

\* The derived address is already in use.
C13_WitnessInUse ==
    /\ phase = "done" /\ result = "err"
    /\ Len(trace) = 2 /\ trace[1].op = "alloc" /\ trace[2].val = "create_account"
    /\ committed[Ix.payer].lamports >= rent_minimum(DATA_LEN)
    /\ committed[Ix.pda].lamports = 1 /\ data_is_empty(committed[Ix.pda])

\* x < y on u64 values: at the first digit where they differ, x is smaller.
U64Less(x, y) ==
    \E i \in 1..8 : x[i] < y[i] /\ \A j \in 1..(i - 1) : x[j] = y[j]

\* a + b does not fit in 64 bits: a exceeds 2^64 - 1 - b.
SumOverflows(a, b) == U64Less([i \in 1..8 |-> 255 - b[i]], a)

\* C14: a step on a record with remaining > 0 whose a + b does not fit in
\* 64 bits aborts, and aborts before any write: the record keeps its a, b
\* and remaining.  A step whose a + b fits writes the record.
C14_OverflowAborts ==
    [][(AtStep /\ field_n(working[Top.pda].data) # U64_ZERO)
          => LET d == working[Top.pda].data
             IN  IF SumOverflows(field_a(d), field_b(d))
                 THEN /\ result' = "err"
                      /\ stack' = Pop
                      /\ working' = working
                      /\ trace' = trace \o
                           <<Ev("read", Top.pda, Top.payer, d),
                             Ev("fail", Top.pda, Top.payer, "overflow")>>
                 ELSE /\ working'[Top.pda].data # d
                      /\ ~U64Less(field_b(working'[Top.pda].data), field_a(d))
                      /\ ~U64Less(field_b(working'[Top.pda].data), field_b(d))]_vars

C14_Witness ==
    /\ phase = "done" /\ result = "err"
    /\ Len(trace) = 2 /\ trace[2].val = "overflow"
    /\ Fields(committed[Ix.pda])
         = <<U64_MAX, u64(1), u64(2), BumpOf("alice")>>

\* C15: in every execution that starts from absent records, no step aborts
\* for overflow: the a and b every step reads have a sum that fits in 64
\* bits (they are at most fib(4) and fib(5)).
C15_OverflowUnreachable ==
    /\ \A i \in Touches({"fail"}) : trace[i].val # "overflow"
    /\ \A i \in Touches({"read"}) :
         /\ ~SumOverflows(field_a(trace[i].val), field_b(trace[i].val))
         /\ ~U64Less(u64(Fib(MAX_INVOKE_STACK_HEIGHT - 1)), field_a(trace[i].val))
         /\ ~U64Less(u64(Fib(MAX_INVOKE_STACK_HEIGHT)), field_b(trace[i].val))

C15_Witness ==
    /\ phase = "done" /\ result = "err" /\ CountIs(MaxN)
    /\ \E i \in Touches({"read"}) :
         /\ field_a(trace[i].val) = u64(2) /\ field_b(trace[i].val) = u64(3)
         /\ trace[i + 1].op = "write"

\* What a call on a present record leaves, told from the record's bytes d,
\* the accounts named, whether the payer signed and the stack height h, and
\* from nothing else: the record's bytes, the call's result ("none" while a
\* callee runs) and the callee's frame if there is one.
StepOutcome(d, pda, payer, signer, h) ==
    LET sum == checked_add(field_a(d), field_b(d))
        w == step_write(d, field_b(d), unwrap(sum), field_n(d))
    IN  IF field_n(d) = U64_ZERO THEN <<d, "ok", <<>>>>
        ELSE IF sum = None THEN <<d, "err", <<>>>>
        ELSE IF field_n(w) = U64_ZERO THEN <<w, "ok", <<>>>>
        ELSE IF h < MAX_INVOKE_STACK_HEIGHT /\ signer
        THEN <<w, "none",
               <<[pda |-> pda, payer |-> payer, is_signer |-> TRUE,
                  system |-> SYSTEM_PROGRAM, data |-> <<>>, pc |-> "entry"]>> >>
        ELSE <<w, "err", <<>>>>

\* C16: a call takes the resume path exactly when the named record holds
\* bytes; on a present record the payload plays no part: the record, the
\* result and the continuation are those StepOutcome tells without it, and
\* the record is never allocated or initialized again.
C16_PayloadIgnored ==
    [][(phase = "running" /\ stack # <<>> /\ Top.pc = "entry")
          => /\ Len(trace') > Len(trace)
             /\ trace'[Len(trace) + 1].op = "read"
                  <=> ~data_is_empty(working[Top.pda])
             /\ AtStep
                  => LET o == StepOutcome(working[Top.pda].data, Top.pda,
                                          Top.payer, Top.is_signer, Len(stack))
                     IN  /\ working' = [working EXCEPT ![Top.pda].data = o[1]]
                         /\ result' = o[2]
                         /\ stack' = IF o[3] = <<>> THEN Pop
                                     ELSE Append([stack EXCEPT ![Len(stack)].pc = "await"],
                                                 o[3][1])
                         /\ \A i \in (Len(trace) + 1)..Len(trace') :
                              /\ trace'[i].op \notin {"alloc"}
                              /\ trace'[i].op = "write"
                                   => trace'[i].val[25] = working[Top.pda].data[25]]_vars

\* A top-level call with a step count as payload advanced a present record.
C16_Witness ==
    /\ phase = "done" /\ result = "ok" /\ CountIs(3)
    /\ ~Did("alloc") /\ Cardinality(Touches({"write"})) = 2
    /\ Fields(committed[Ix.pda])[3] = U64_ZERO

\* The last write of the transaction so far.
LastWrite == trace[CHOOSE i \in Touches({"write"}) :
                     \A j \in Touches({"write"}) : j <= i]

\* C17: in a chain, a self-invocation is issued only after the caller's
\* write of the record (write, msg!, then invoke), the callee runs on the
\* same record and reads exactly the bytes the caller wrote, and no nested
\* call reads anything older than the latest write.
C17_ReadsLatestWrite ==
    /\ \A i \in Touches({"cpi", "cpi_rejected"}) :
         /\ i >= 3
         /\ trace[i - 2].op = "write" /\ trace[i - 1].op = "msg"
         /\ trace[i - 2].addr = trace[i].addr
    /\ \A i \in Touches({"cpi"}) :
         i < Len(trace)
         => /\ trace[i + 1].op = "read"
            /\ trace[i + 1].addr = trace[i].addr
            /\ trace[i + 1].who = trace[i].who
            /\ trace[i + 1].val = trace[i - 2].val
    /\ \A j \in Touches({"read"}) :
         j > 1 => trace[j - 1].op = "cpi"
                  /\ \A k \in Touches({"write"}) :
                       k < j => (trace[k].val = trace[j].val <=> k = j - 3)
    /\ (phase = "running" /\ Len(stack) >= 2 /\ Top.pc = "entry")
         => /\ working[Top.pda].data = LastWrite.val
            /\ Top.pda = LastWrite.addr

C17_Witness ==
    /\ phase = "done" /\ result = "ok" /\ CountIs(4)
    /\ Len(trace) = 20
    /\ trace[12].op = "cpi" /\ trace[13].op = "read"
    /\ trace[13].val = trace[10].val
    /\ Fields([data |-> trace[13].val])[3] = u64(2)

\* C18: between transactions every record is absent or has remaining = 0;
\* a record with remaining > 0 exists only while a transaction runs, so a
\* top-level call on a committed record never writes it.
C18_CommittedIsTerminal ==
    /\ \A x \in RecordAddresses :
         data_is_empty(committed[x]) \/ field_n(committed[x].data) = U64_ZERO
    /\ phase # "running" => working = committed
    /\ (trace # <<>> /\ trace[1].op = "read")
         => /\ Touches({"write", "cpi", "cpi_rejected", "alloc"}) = {}
            /\ phase = "done" => result = "ok"

C18_Witness ==
    /\ phase = "done" /\ result = "ok" /\ Ix.data = <<>>
    /\ trace[1].op = "read" /\ Len(trace) = 2
    /\ Fields(committed[Ix.pda]) = <<u64(3), u64(5), u64(0), BumpOf(Ix.payer)>>
    /\ \E x \in RecordAddresses \ {Ix.pda} : ~data_is_empty(committed[x])

\* The entry-point executions of the transaction so far: the outermost call
\* and one per accepted self-invocation.
Executions == IF phase = "idle" THEN 0 ELSE 1 + Cardinality(Touches({"cpi"}))

\* C19: every transaction ends, committed or aborted, whatever the step count
\* and whatever record it starts on (absent, or any committed one), after at
\* most 5 entry-point executions; each execution writes at most once and
\* issues at most one self-invocation, and the stack never exceeds the height
\* limit.
C19_Terminates ==
    /\ (phase = "running") ~> (phase = "done")
    /\ [](/\ Executions <= MAX_INVOKE_STACK_HEIGHT
          /\ Len(stack) <= MAX_INVOKE_STACK_HEIGHT
          /\ Cardinality(Touches({"write"})) <= Executions
          /\ Issued <= Cardinality(Touches({"write"})))

\* A chain with more steps than the limit allows was cut off and ended.
C19_Witness ==
    /\ phase = "done" /\ result = "err" /\ Executions = 5 /\ CountIs(MaxN)
    /\ Did("cpi_rejected") /\ Cardinality(Touches({"write"})) = 5

\* C20: only the init write stores the discriminator: no later step of any
\* kind changes byte 24 of a present record, so every record the program
\* created holds the bump derived for its payer, and only derived addresses
\* hold records.
C20_BumpIsKept ==
    [][/\ \A x \in RecordAddresses :
            (~data_is_empty(working[x]) /\ ~data_is_empty(working'[x]))
            => field_bump(working'[x].data) = field_bump(working[x].data)
       /\ \A p \in Identities :
            /\ ~data_is_empty(working'[PdaOf(p)])
                 => field_bump(working'[PdaOf(p)].data) = BumpOf(p)
            /\ ~data_is_empty(committed'[PdaOf(p)])
                 => field_bump(committed'[PdaOf(p)].data) = BumpOf(p)
       /\ data_is_empty(working'[Stray]) /\ data_is_empty(committed'[Stray])
       /\ \A i \in DOMAIN trace' :
            (trace'[i].op = "write" /\ trace'[i - 1].op = "read")
            => trace'[i].val[25] = trace'[i - 1].val[25]]_vars

C20_Witness ==
    /\ phase = "done" /\ result = "ok" /\ Ix.payer = "bob" /\ CountIs(3)
    /\ Cardinality(Touches({"write"})) = 4
    /\ ~data_is_empty(committed[PdaOf("alice")])
    /\ field_bump(committed[PdaOf("bob")].data) = 254
    /\ field_bump(committed[PdaOf("alice")].data) = 255

====
